---- MODULE Spec2Model ----
(***************************************************************************)
(* AnyReverseProxy (src/main.py): a Flask proxy in front of a remote       *)
(* chat-completion API.  The model follows the request mediation pipeline: *)
(* the allow-list check of generate(), the lock-guarded body of            *)
(* normal_operation(), the lazily run generator generate_stream(), and the *)
(* text helper trim_to_end_sentence().                                     *)
(*                                                                         *)
(* Each request is served by its own thread.  A thread's position is       *)
(* pc[r]; a step of the model is the code between two points where the     *)
(* thread can be suspended: waiting for the lock, waiting for the upstream *)
(* (the call's answer, or the next chunk of a stream), or a generator      *)
(* `yield` (the WSGI server writes the event and calls next() again).      *)
(*                                                                         *)
(* Encodings.  Optional[x] is a sequence of length <= 1 (<<>> is None).    *)
(* A text whose characters matter (tokens, allow-list lines, completion    *)
(* text) is a sequence of one-character strings.  A message's content is a *)
(* sequence of text pieces, so that `+=` is \o.  str(error) is a sequence  *)
(* of words; `"429" in str(error)` is a word of the sequence.              *)
(***************************************************************************)
EXTENDS Integers, Sequences, FiniteSets, TLC

\* ---------------------------------------------------------------- bounds
\* Number of concurrent requests (threads).
NumReqs == 2
\* Longest chunk sequence an upstream stream delivers: to one request served
\* alone, and to each of the concurrent requests.
MaxChunks == 3
MaxConcChunks == 1
\* Longest text handed to trim_to_end_sentence on its own.
MaxLen == 4

Reqs == 1..NumReqs
\* The single request of the sequential specifications.
One == {1}

\* ---------------------------------------------------------------- values
None == <<>>
Some(x) == <<x>>
NoReq == 0

\* Python truthiness of an Optional[str] (`not x`, `if x:`): None and "" are
\* falsy.  TruthyText is for a text kept as a character sequence, TruthyAtom
\* for one kept as a single TLA+ string.
TruthyText(opt) == opt # None /\ opt[1] # <<>>
TruthyAtom(opt) == opt # None /\ opt[1] # ""

Max(S) == CHOOSE x \in S : \A y \in S : y <= x

Whitespace == {" ", "\n"}

RECURSIVE lstrip(_)
lstrip(s) == IF s # <<>> /\ Head(s) \in Whitespace THEN lstrip(Tail(s)) ELSE s

RECURSIVE rstrip(_)
rstrip(s) ==
    IF s # <<>> /\ s[Len(s)] \in Whitespace THEN rstrip(SubSeq(s, 1, Len(s) - 1)) ELSE s

\* str.strip()
strip(s) == lstrip(rstrip(s))

\* ---------------------------------------------------------------- state
VARIABLES
    API_KEY,            \* Optional[str]: os.getenv('API_KEY')
    PREFILL_ENABLED,    \* BOOLEAN
    AUTO_TRIM,          \* BOOLEAN
    whitelist_file,     \* Optional[sequence of lines]: whitelist_token.txt
    whitelist_boot,     \* the content of that file when the process started
    completion_lock,    \* NoReq, or the request whose thread holds the lock
    pc,                 \* pc[r]: where request r's thread is
    req,                \* req[r]: the inbound request (entry, header, body)
    opened,             \* opened[r]: generate() opened the allow-list file
    params,             \* params[r]: Optional[the params built for the upstream]
    calls,              \* calls[r]: upstream chat-completion calls issued for r
    chunks,             \* chunks[r]: the chunks r's generator took from the stream
    cur,                \* cur[r]: Optional[the chunk the generator is suspended on]
    events,             \* events[r]: the wire events r's generator yielded
    raised,             \* raised[r]: Optional[the failure the upstream raised]
    response,           \* response[r]: Optional[the result create() returned]
    resp,               \* resp[r]: the response (status, kind, error, result)
    trim_arg,           \* the arguments of a call of trim_to_end_sentence
    trim_ret            \* what it returned, and what it returned for that

vars == <<API_KEY, PREFILL_ENABLED, AUTO_TRIM, whitelist_file, whitelist_boot,
          completion_lock,
          pc, req, opened, params, calls, chunks, cur, events, raised, response, resp,
          trim_arg, trim_ret>>

trimmer == <<trim_arg, trim_ret>>

\* What no request handler writes.
config == <<API_KEY, PREFILL_ENABLED, AUTO_TRIM, whitelist_file, whitelist_boot, trimmer>>

\* ------------------------------------------------- trim_to_end_sentence
\* ".!?" and their full-width counterparts (written FW., FW!, FW?).
punctuation == {".", "!", "?", "FW.", "FW!", "FW?"}

\* Variant: the slice stops before the terminator (input_str[:last_index]).
trim_to_end_sentence_exclusive(input_str, include_newline) ==
    LET terminators == punctuation \cup (IF include_newline THEN {"\n"} ELSE {})
        at == {i \in 1..Len(input_str) : input_str[i] \in terminators}
    IN  IF at # {}
        THEN rstrip(SubSeq(input_str, 1, Max(at) - 1))
        ELSE rstrip(input_str)

\* str.rfind(char): the highest 0-based index of char, or -1.
rfind(s, c) ==
    LET at == {i \in 1..Len(s) : s[i] = c}
    IN  IF at = {} THEN -1 ELSE Max(at) - 1

trim_to_end_sentence(input_str, include_newline) ==
    LET terminators == punctuation \cup (IF include_newline THEN {"\n"} ELSE {})
        last_index == Max({-1} \cup {rfind(input_str, c) : c \in terminators})
    IN  IF last_index # -1
        THEN rstrip(SubSeq(input_str, 1, last_index + 1))
        ELSE rstrip(input_str)

auto_trim(text) == trim_to_end_sentence(text, FALSE)

\* One call of the function with given arguments.
TrimArg(input_str, include_newline) ==
    [input_str |-> input_str, include_newline |-> include_newline]

\* ------------------------------------------------------------ responses
Response(status, kind, error, result) ==
    [status |-> status, kind |-> kind, error |-> error, result |-> result]

NoResponse == Response(0, "none", <<>>, None)

\* jsonify(error=...), status
JsonError(status, message) == Response(status, "json_error", message, None)

\* An exception that leaves the view function: Flask answers 500.
Unhandled(exception) == Response(500, "unhandled", <<exception>>, None)

\* A completion result: whether `choices` is non-empty, the content of
\* choices[0].message (None for JSON null), and the usage triple.
Result(has_choices, content, usage) ==
    [has_choices |-> has_choices, content |-> content, usage |-> usage]

\* The dict normal_operation returns for the "Just say TEST" probe.
CannedResult == Result(TRUE, Some(<<"T", "E", "S", "T">>), <<10, 1, 11>>)

\* ------------------------------------------------------------ Auth Gate
\* {line.strip() for line in f if line.strip()}
allowed_tokens(lines) == {strip(lines[i]) : i \in 1..Len(lines)} \ {<<>>}

\* Variant: the allow-list file is opened before the header is looked at.
authorize_file_first(user_token, file) ==
    IF file = None THEN "misconfigured"
    ELSE IF ~TruthyText(user_token) THEN "missing"
    ELSE IF user_token[1] \notin allowed_tokens(file[1]) THEN "invalid"
    ELSE "pass"

\* Variant: the membership test is left out.
authorize_any_token(user_token, file) ==
    IF ~TruthyText(user_token) THEN "missing"
    ELSE IF file = None THEN "misconfigured"
    ELSE "pass"

\* generate(): the outcome of the checks before normal_operation is called.
authorize(user_token, file) ==
    IF ~TruthyText(user_token) THEN "missing"
    ELSE IF file = None THEN "misconfigured"
    ELSE IF user_token[1] \notin allowed_tokens(file[1]) THEN "invalid"
    ELSE "pass"

AuthDenied(outcome) ==
    CASE outcome = "missing" -> JsonError(401, <<"No API key provided">>)
      [] outcome = "misconfigured" ->
             JsonError(500, <<"Server misconfiguration: whitelist file missing">>)
      [] outcome = "invalid" -> JsonError(401, <<"Unauthorized - invalid API key">>)

\* ------------------------------------------------------- request shaping
Message(role, content) == [role |-> role, content |-> content]

TEST_PROBE == <<"Just say TEST">>
ASSISTANT_PREFILL == "<ASSISTANT_PREFILL>"

\* Variant: the probe is looked for in the last message (messages[-1]).
is_test_probe_last(messages) ==
    messages # <<>> /\ messages[Len(messages)].content = TEST_PROBE

\* messages and messages[0]["content"] == "Just say TEST"
is_test_probe(messages) == messages # <<>> /\ messages[1].content = TEST_PROBE

\* Variant: the role looked at is that of the first message.
prefill_first_role(messages) ==
    LET n == Len(messages)
    IN  IF messages[1].role = "user"
        THEN Append(messages, Message("assistant", <<ASSISTANT_PREFILL>>))
        ELSE [messages EXCEPT ![n].content = @ \o <<"\n", ASSISTANT_PREFILL>>]

\* The PREFILL_ENABLED branch, for a non-empty list.
prefill(messages) ==
    LET n == Len(messages)
    IN  IF messages[n].role = "user"
        THEN Append(messages, Message("assistant", <<ASSISTANT_PREFILL>>))
        ELSE [messages EXCEPT ![n].content = @ \o <<"\n", ASSISTANT_PREFILL>>]

\* get_client(): raises ValueError without a key.
get_client(key) == IF TruthyAtom(key) THEN "client" ELSE "ValueError"

\* str(error) classification shared by both except blocks.
lower(word) ==
    CASE word = "Quota" -> "quota"
      [] word = "QUOTA" -> "quota"
      [] word = "Unauthorized" -> "unauthorized"
      [] OTHER -> word

contains(msg, word) == \E i \in 1..Len(msg) : msg[i] = word
contains_lower(msg, word) == \E i \in 1..Len(msg) : lower(msg[i]) = word

\* "429" in str(error) or "quota" in str(error).lower()
is_quota(msg) == contains(msg, "429") \/ contains_lower(msg, "quota")
\* "401" in str(error) or "unauthorized" in str(error).lower()
is_unauthorized(msg) == contains(msg, "401") \/ contains_lower(msg, "unauthorized")

\* Variant: the words are looked for without .lower().
error_response_case_sensitive(msg) ==
    IF contains(msg, "429") \/ contains(msg, "quota")
    THEN JsonError(429, <<"out of quota">>)
    ELSE IF contains(msg, "401") \/ contains(msg, "unauthorized")
    THEN JsonError(401, <<"Unauthorized - check your API key">>)
    ELSE JsonError(500, msg)

\* The except block of normal_operation.
error_response(msg) ==
    IF is_quota(msg) THEN JsonError(429, <<"out of quota">>)
    ELSE IF is_unauthorized(msg) THEN JsonError(401, <<"Unauthorized - check your API key">>)
    ELSE JsonError(500, msg)


\* Variant: the prefill branch runs before the API_KEY check.
section_shaping_first(body, key, prefill_enabled) ==
    LET messages == body.messages[1]
        shaped == IF prefill_enabled THEN prefill(messages) ELSE messages
        none == [to |-> "return", resp |-> NoResponse, params |-> None]
    IN  IF ~body.json THEN [none EXCEPT !.resp = Response(400, "json_error", <<"True">>, None)]
        ELSE IF body.messages = None
            THEN [none EXCEPT !.to = "raise", !.resp = Unhandled("KeyError")]
        ELSE IF is_test_probe(messages)
            THEN [none EXCEPT !.resp = Response(200, "result", <<>>, Some(CannedResult))]
        ELSE IF prefill_enabled /\ messages = <<>>
            THEN [none EXCEPT !.to = "raise", !.resp = Unhandled("IndexError")]
        ELSE IF ~TruthyAtom(key)
            THEN [none EXCEPT !.resp =
                      JsonError(401, <<"No API key found in environment variables">>)]
        ELSE IF body.stream
            THEN [to |-> "stream",
                  resp |-> Response(200, "event-stream", <<>>, None),
                  params |-> Some([messages |-> shaped, stream |-> TRUE])]
        ELSE [to |-> "call", resp |-> NoResponse,
              params |-> Some([messages |-> shaped, stream |-> FALSE])]

\* The straight-line code of normal_operation from the `with` to the first
\* point where it returns, raises or waits for the upstream.  `to` is where
\* the thread goes next.
section(body, key, prefill_enabled) ==
    LET messages == body.messages[1]
        shaped == IF prefill_enabled THEN prefill(messages) ELSE messages
        none == [to |-> "return", resp |-> NoResponse, params |-> None]
    IN  IF ~body.json THEN [none EXCEPT !.resp = Response(400, "json_error", <<"True">>, None)]
        ELSE IF body.messages = None
            THEN [none EXCEPT !.to = "raise", !.resp = Unhandled("KeyError")]
        ELSE IF is_test_probe(messages)
            THEN [none EXCEPT !.resp = Response(200, "result", <<>>, Some(CannedResult))]
        ELSE IF ~TruthyAtom(key)
            THEN [none EXCEPT !.resp =
                      JsonError(401, <<"No API key found in environment variables">>)]
        ELSE IF prefill_enabled /\ messages = <<>>
            THEN [none EXCEPT !.to = "raise", !.resp = Unhandled("IndexError")]
        ELSE IF get_client(key) # "client"
            THEN [none EXCEPT !.resp =
                      error_response(<<"No API key found in environment variables">>)]
        ELSE IF body.stream
            THEN [to |-> "stream",
                  resp |-> Response(200, "event-stream", <<>>, None),
                  params |-> Some([messages |-> shaped, stream |-> TRUE])]
        ELSE [to |-> "call", resp |-> NoResponse,
              params |-> Some([messages |-> shaped, stream |-> FALSE])]

\* ------------------------------------------------------ generate_stream
Chunk(content, finish_reason) == [content |-> content, finish_reason |-> finish_reason]

Failure(kind, msg) == [kind |-> kind, msg |-> msg]

Event(type, content, finish_reason, message) ==
    [type |-> type, content |-> content, finish_reason |-> finish_reason,
     message |-> message]

\* f"data: {json.dumps(data)}\n\n" for a chunk with content
data_event(chunk) == Event("data", chunk.content, chunk.finish_reason, <<>>)
\* "data: [DONE]\n\n"
DONE == Event("done", None, None, <<>>)
\* Variant: "quota" is looked for without .lower().
error_event_case_sensitive(msg) ==
    IF contains(msg, "429") \/ contains(msg, "quota")
    THEN Event("error", None, None, <<"out of quota">>)
    ELSE Event("error", None, None, <<"request failed: ">> \o msg)

\* The except block of generate_stream.
error_event(msg) ==
    IF is_quota(msg) THEN Event("error", None, None, <<"out of quota">>)
    ELSE Event("error", None, None, <<"request failed: ">> \o msg)

\* Variant: `if chunk.choices[0].delta.content:` (an empty text is skipped).
has_content_truthy(chunk) == TruthyAtom(chunk.content)

\* if chunk.choices[0].delta.content is not None
has_content(chunk) == chunk.content # None

\* Variant: the finish test is indented into the content branch.
has_finish_in_content_branch(chunk) ==
    has_content(chunk) /\ TruthyAtom(chunk.finish_reason)

\* if chunk.choices[0].finish_reason:
has_finish(chunk) == TruthyAtom(chunk.finish_reason)

\* ------------------------------------------------------------------ Init
\* req[r].body is None until normal_operation reads request.json (Flask
\* parses the body on that first access, inside the lock).
NoRequest == [entry |-> "", token |-> None, body |-> None]

\* What the process starts with: the configuration read from the environment
\* (lines 15-19) and the allow-list file on disk.
Config(key, prefill_enabled, trim, file) ==
    [API_KEY |-> key, PREFILL_ENABLED |-> prefill_enabled, AUTO_TRIM |-> trim,
     whitelist_file |-> file]

InitProcess(Configs) ==
    /\ \E c \in Configs :
           /\ API_KEY = c.API_KEY
           /\ PREFILL_ENABLED = c.PREFILL_ENABLED
           /\ AUTO_TRIM = c.AUTO_TRIM
           /\ whitelist_file = c.whitelist_file
           /\ whitelist_boot = c.whitelist_file
    /\ completion_lock = NoReq
    /\ pc = [r \in Reqs |-> "idle"]
    /\ req = [r \in Reqs |-> NoRequest]
    /\ opened = [r \in Reqs |-> FALSE]
    /\ params = [r \in Reqs |-> None]
    /\ calls = [r \in Reqs |-> 0]
    /\ chunks = [r \in Reqs |-> <<>>]
    /\ cur = [r \in Reqs |-> None]
    /\ events = [r \in Reqs |-> <<>>]
    /\ raised = [r \in Reqs |-> None]
    /\ response = [r \in Reqs |-> None]
    /\ resp = [r \in Reqs |-> NoResponse]

InitWith(Configs) ==
    /\ InitProcess(Configs)
    /\ trim_arg = TrimArg(<<>>, FALSE)
    /\ trim_ret = <<>>

\* ------------------------------------------------------------- the lock
\* Variant: acquire() and release() around the body without try/finally, so
\* that an exception skips the release.
with_exit_no_finally(r, how) == IF how = "raise" THEN r ELSE NoReq

\* Leaving `with completion_lock:` by `how` ("return" or "raise"): the lock
\* after it.
with_exit(r, how) == NoReq

\* ------------------------------------------------------------ the routes
stream_vars == <<chunks, cur, events>>

\* Variant: the allow-list is loaded once, when the process starts, and the
\* set is kept.
open_whitelist_cached == whitelist_boot

\* open('whitelist_token.txt') in generate(): the file as it is at the call
\* (None: FileNotFoundError).
open_whitelist == whitelist_file

\* POST /: normal_generate() calls normal_operation(request), which first
\* waits for the lock.
normal_generate(r, token) ==
    /\ pc[r] = "idle"
    /\ req' = [req EXCEPT ![r] = [entry |-> "/", token |-> token, body |-> None]]
    /\ pc' = [pc EXCEPT ![r] = "waiting"]
    /\ UNCHANGED <<config, completion_lock, opened, params, calls, stream_vars,
                   raised, resp, response>>

\* POST /chat/completions: generate() up to its return or its call of
\* normal_operation(request).
generate(r, token) ==
    /\ pc[r] = "idle"
    /\ req' = [req EXCEPT ![r] =
                   [entry |-> "/chat/completions", token |-> token, body |-> None]]
    /\ opened' = [opened EXCEPT ![r] = TruthyText(token)]
    /\ LET outcome == authorize(token, open_whitelist)
       IN  IF outcome = "pass"
           THEN /\ pc' = [pc EXCEPT ![r] = "waiting"]
                /\ UNCHANGED resp
           ELSE /\ pc' = [pc EXCEPT ![r] = "done"]
                /\ resp' = [resp EXCEPT ![r] = AuthDenied(outcome)]
    /\ UNCHANGED <<config, completion_lock, params, calls, stream_vars, raised, response>>

\* Variant: the section is entered without waiting for the lock to be free.
acquire_without_waiting(r) ==
    /\ pc[r] = "waiting"
    /\ completion_lock' = r
    /\ pc' = [pc EXCEPT ![r] = "locked"]
    /\ UNCHANGED <<config, req, opened, params, calls, stream_vars, raised, resp, response>>

\* with completion_lock: (the acquire)
acquire(r) ==
    /\ pc[r] = "waiting"
    /\ completion_lock = NoReq
    /\ completion_lock' = r
    /\ pc' = [pc EXCEPT ![r] = "locked"]
    /\ UNCHANGED <<config, req, opened, params, calls, stream_vars, raised, resp, response>>

\* normal_operation inside the lock, up to its return, its exception, or the
\* non-streaming upstream call (the thread then waits for the answer with the
\* lock held).  A streaming request returns the Response that wraps the
\* generator: the generator's body has not started to run.
guarded(r, body) ==
    /\ pc[r] = "locked"
    /\ req' = [req EXCEPT ![r].body = Some(body)]
    /\ LET out == section(body, API_KEY, PREFILL_ENABLED)
       IN  /\ params' = [params EXCEPT ![r] = out.params]
           /\ resp' = [resp EXCEPT ![r] = out.resp]
           /\ IF out.to = "call"
              THEN /\ pc' = [pc EXCEPT ![r] = "calling"]
                   /\ calls' = [calls EXCEPT ![r] = @ + 1]
                   /\ UNCHANGED completion_lock
              ELSE /\ pc' = [pc EXCEPT ![r] =
                                 IF out.to = "stream" THEN "gen_created" ELSE "done"]
                   /\ completion_lock' =
                          with_exit(r, IF out.to = "raise" THEN "raise" ELSE "return")
                   /\ UNCHANGED calls
    /\ UNCHANGED <<config, opened, stream_vars, raised, response>>

\* Variant: the trimmed result is returned without its usage.
finish_result_drops_usage(result, trim) ==
    IF trim /\ result.has_choices /\ result.content # None
    THEN Response(200, "result", <<>>,
                  Some([result EXCEPT !.content = Some(auto_trim(@[1])),
                                      !.usage = <<0, 0, 0>>]))
    ELSE Response(200, "result", <<>>, Some(result))

\* response.model_dump(), the AUTO_TRIM step and jsonify(result); auto_trim
\* of a null content raises AttributeError, which the except block reports.
finish_result(result, trim) ==
    IF trim /\ result.has_choices
    THEN IF result.content = None
         THEN error_response(<<"'NoneType' object has no attribute 'rfind'">>)
         ELSE Response(200, "result", <<>>,
                       Some([result EXCEPT !.content = Some(auto_trim(@[1]))]))
    ELSE Response(200, "result", <<>>, Some(result))

\* client.chat.completions.create(**params) returns (non-streaming).
create_returns(r, result) ==
    /\ pc[r] = "calling"
    /\ response' = [response EXCEPT ![r] = Some(result)]
    /\ resp' = [resp EXCEPT ![r] = finish_result(result, AUTO_TRIM)]
    /\ pc' = [pc EXCEPT ![r] = "done"]
    /\ completion_lock' = with_exit(r, "return")
    /\ UNCHANGED <<config, req, opened, params, calls, stream_vars, raised>>

\* client.chat.completions.create(**params) raises (non-streaming).
create_raises(r, failure) ==
    /\ pc[r] = "calling"
    /\ raised' = [raised EXCEPT ![r] = Some(failure)]
    /\ resp' = [resp EXCEPT ![r] = error_response(failure.msg)]
    /\ pc' = [pc EXCEPT ![r] = "done"]
    /\ completion_lock' = with_exit(r, "return")
    /\ UNCHANGED <<config, req, opened, params, calls, stream_vars, response>>

\* ---------------------------------------------- the generator, step by step
lock_vars == <<completion_lock, req, opened, params>>

\* The server's first next() on the response: the generator's body starts
\* and issues client.chat.completions.create(**kwargs).
gen_start(r) ==
    /\ pc[r] = "gen_created"
    /\ calls' = [calls EXCEPT ![r] = @ + 1]
    /\ pc' = [pc EXCEPT ![r] = "create_wait"]
    /\ UNCHANGED <<config, lock_vars, stream_vars, raised, resp, response>>

\* create() returns the stream; the loop asks for the first chunk.
stream_opens(r) ==
    /\ pc[r] = "create_wait"
    /\ pc' = [pc EXCEPT ![r] = "chunk_wait"]
    /\ UNCHANGED <<config, lock_vars, calls, stream_vars, raised, resp, response>>

\* create(), or the fetch of the next chunk, raises: the except block yields
\* one error event.
stream_raises(r, failure) ==
    /\ pc[r] \in {"create_wait", "chunk_wait"}
    /\ raised' = [raised EXCEPT ![r] = Some(failure)]
    /\ events' = [events EXCEPT ![r] = Append(@, error_event(failure.msg))]
    /\ pc' = [pc EXCEPT ![r] = "yield_err"]
    /\ UNCHANGED <<config, lock_vars, calls, chunks, cur, resp, response>>

\* `for chunk in stream` delivers a chunk: the loop body up to its first
\* yield, or back to the fetch when the chunk yields nothing.
chunk_arrives(r, chunk) ==
    /\ pc[r] = "chunk_wait"
    /\ chunks' = [chunks EXCEPT ![r] = Append(@, chunk)]
    /\ IF has_content(chunk)
       THEN /\ events' = [events EXCEPT ![r] = Append(@, data_event(chunk))]
            /\ cur' = [cur EXCEPT ![r] = Some(chunk)]
            /\ pc' = [pc EXCEPT ![r] = "yield_data"]
       ELSE IF has_finish(chunk)
       THEN /\ events' = [events EXCEPT ![r] = Append(@, DONE)]
            /\ pc' = [pc EXCEPT ![r] = "yield_done"]
            /\ UNCHANGED cur
       ELSE UNCHANGED <<events, cur, pc>>
    /\ UNCHANGED <<config, lock_vars, calls, raised, resp, response>>

\* next() after the data event of a chunk: the finish test of that chunk.
resume_data(r) ==
    /\ pc[r] = "yield_data"
    /\ cur' = [cur EXCEPT ![r] = None]
    /\ IF has_finish(cur[r][1])
       THEN /\ events' = [events EXCEPT ![r] = Append(@, DONE)]
            /\ pc' = [pc EXCEPT ![r] = "yield_done"]
       ELSE /\ pc' = [pc EXCEPT ![r] = "chunk_wait"]
            /\ UNCHANGED events
    /\ UNCHANGED <<config, lock_vars, calls, chunks, raised, resp, response>>

\* The stream is exhausted (StopIteration): the loop and the generator end.
stream_ends(r) ==
    /\ pc[r] = "chunk_wait"
    /\ pc' = [pc EXCEPT ![r] = "done"]
    /\ UNCHANGED <<config, lock_vars, calls, stream_vars, raised, resp, response>>

\* next() after [DONE] (the break) or after the error event: the generator
\* returns.
resume_end(r) ==
    /\ pc[r] \in {"yield_done", "yield_err"}
    /\ pc' = [pc EXCEPT ![r] = "done"]
    /\ UNCHANGED <<config, lock_vars, calls, stream_vars, raised, resp, response>>

\* The client goes away while the generator is suspended at a yield: the
\* server closes the generator (GeneratorExit, which `except Exception` does
\* not catch), and the code after the yield never runs.  cur[r] stays the
\* chunk whose finish test was not reached.
client_disconnects(r) ==
    /\ pc[r] \in {"yield_data", "yield_done", "yield_err"}
    /\ pc' = [pc EXCEPT ![r] = "done"]
    /\ UNCHANGED <<config, lock_vars, calls, stream_vars, raised, resp, response>>

\* Outside the program: an operator rewrites, removes or creates
\* whitelist_token.txt while the server runs.
edit_whitelist(file) ==
    /\ file # whitelist_file
    /\ whitelist_file' = file
    /\ UNCHANGED <<API_KEY, PREFILL_ENABLED, AUTO_TRIM, whitelist_boot, trimmer,
                   completion_lock, pc, req, opened, params, calls, stream_vars,
                   raised, response, resp>>

\* The function called on its own: first on the argument, then on its own
\* result.
requests ==
    <<completion_lock, pc, req, opened, params, calls, stream_vars, raised, response, resp>>

call_trim ==
    /\ Len(trim_ret) < 2
    /\ trim_ret' =
           Append(trim_ret,
                  trim_to_end_sentence(
                      IF trim_ret = <<>> THEN trim_arg.input_str ELSE trim_ret[1],
                      trim_arg.include_newline))
    /\ UNCHANGED <<API_KEY, PREFILL_ENABLED, AUTO_TRIM, whitelist_file, whitelist_boot,
                   trim_arg, requests>>

\* ------------------------------------------------------------ the inputs
Body(json, messages, stream) == [json |-> json, messages |-> messages, stream |-> stream]

Hi == Message("user", <<"hi">>)
Probe == Message("user", TEST_PROBE)

\* Authorization header values and allow-list files.
Tokens == {None, Some(<<>>), Some(<<"a">>), Some(<<"b">>), Some(<<" ", "a">>)}
Files ==
    {None, Some(<<>>), Some(<< <<"a", "\n">> >>),
     Some(<< <<" ", "a", " ", "\n">>, <<"\n">>, <<"b">> >>)}
Keys == {None, Some(""), Some("sk")}

Bodies ==
    {Body(FALSE, None, FALSE), Body(TRUE, None, FALSE)}
    \cup {Body(TRUE, Some(m), s) :
            m \in {<<>>, <<Hi>>, <<Probe>>, <<Hi, Probe>>,
                   <<Hi, Message("assistant", <<"x">>)>>,
                   <<Message("system", TEST_PROBE), Message("assistant", <<"x">>)>>},
            s \in BOOLEAN}

\* delta.content is null, "" or a text; finish_reason is null or a reason.
Chunks == {Chunk(c, f) : c \in {None, Some(""), Some("a")}, f \in {None, Some("stop")}}

Failures ==
    {Failure("quota", <<"Error code:", "429">>),
     Failure("quota", <<"Quota", "exceeded">>),
     Failure("unauthorized", <<"Error code:", "401">>),
     Failure("other", <<"Connection error.">>),
     Failure("other", <<"Error code:", "500", "request id", "429">>)}

Results ==
    {Result(TRUE, Some(<<"O", "k", ".", " ", "c", "u", "t">>), <<3, 2, 5>>),
     Result(TRUE, Some(<<"O", "k", "FW!", " ", "\n">>), <<3, 2, 5>>),
     Result(TRUE, Some(<<"n", "o", " ", " ">>), <<3, 2, 5>>),
     Result(TRUE, None, <<3, 0, 3>>),
     Result(FALSE, None, <<3, 0, 3>>)}

\* The inputs of the concurrent specification: one value for each way
\* through the code.
ConcTokens == {None, Some(<<"a">>), Some(<<"b">>)}
ConcConfigs ==
    {Config(None, FALSE, TRUE, Some(<< <<"a", "\n">> >>)),
     Config(Some("sk"), TRUE, TRUE, Some(<< <<"a", "\n">> >>)),
     Config(Some("sk"), FALSE, FALSE, None)}
ConcBodies ==
    {Body(FALSE, None, FALSE), Body(TRUE, None, FALSE), Body(TRUE, Some(<<>>), FALSE),
     Body(TRUE, Some(<<Probe>>), TRUE),
     Body(TRUE, Some(<<Hi>>), FALSE), Body(TRUE, Some(<<Hi>>), TRUE)}
ConcChunks == {Chunk(Some("a"), None), Chunk(Some("a"), Some("stop"))}
ConcFailures == {Failure("quota", <<"Error code:", "429">>)}
ConcResults == {Result(TRUE, Some(<<"O", "k", ".", " ", "c", "u", "t">>), <<3, 2, 5>>)}

\* ------------------------------------------------------ specifications
\* Spec: NumReqs concurrent requests.
Init == InitWith(ConcConfigs)

Next ==
    \E r \in Reqs :
        \/ normal_generate(r, None)
        \/ \E t \in ConcTokens : generate(r, t)
        \/ acquire(r)
        \/ \E b \in ConcBodies : guarded(r, b)
        \/ \E res \in ConcResults : create_returns(r, res)
        \/ \E f \in ConcFailures : create_raises(r, f)
        \/ gen_start(r)
        \/ stream_opens(r)
        \/ \E f \in ConcFailures : stream_raises(r, f)
        \/ \E c \in ConcChunks : Len(chunks[r]) < MaxConcChunks /\ chunk_arrives(r, c)
        \/ resume_data(r)
        \/ stream_ends(r)
        \/ resume_end(r)
        \/ client_disconnects(r)

Spec == Init /\ [][Next]_vars

\* SpecFair: Spec with inbound requests that keep coming (a worker thread is
\* there for every one of them) and the progress the claims on termination
\* assume: a thread that can run does run, a thread that waits for the lock
\* while the lock is free again and again gets it, the upstream answers every
\* call and ends every stream, the client reads the events or goes away.
next_request(r) ==
    /\ pc[r] = "done"
    /\ pc' = [pc EXCEPT ![r] = "idle"]
    /\ req' = [req EXCEPT ![r] = NoRequest]
    /\ opened' = [opened EXCEPT ![r] = FALSE]
    /\ params' = [params EXCEPT ![r] = None]
    /\ calls' = [calls EXCEPT ![r] = 0]
    /\ chunks' = [chunks EXCEPT ![r] = <<>>]
    /\ cur' = [cur EXCEPT ![r] = None]
    /\ events' = [events EXCEPT ![r] = <<>>]
    /\ raised' = [raised EXCEPT ![r] = None]
    /\ response' = [response EXCEPT ![r] = None]
    /\ resp' = [resp EXCEPT ![r] = NoResponse]
    /\ UNCHANGED <<config, completion_lock>>

NextFair ==
    \/ Next
    \/ \E r \in Reqs : next_request(r)

upstream_answers(r) ==
    \/ \E res \in ConcResults : create_returns(r, res)
    \/ \E f \in ConcFailures : create_raises(r, f)
    \/ stream_opens(r)
    \/ \E f \in ConcFailures : stream_raises(r, f)
    \/ \E c \in ConcChunks : Len(chunks[r]) < MaxConcChunks /\ chunk_arrives(r, c)
    \/ stream_ends(r)

client_reads(r) == gen_start(r) \/ resume_data(r) \/ resume_end(r) \/ client_disconnects(r)

Fairness ==
    \A r \in Reqs :
        /\ SF_vars(acquire(r))
        /\ WF_vars(\E b \in ConcBodies : guarded(r, b))
        /\ WF_vars(upstream_answers(r))
        /\ WF_vars(client_reads(r))

SpecFair == Init /\ [][NextFair]_vars /\ Fairness

\* SpecOne: one request at a time over the full input sets.
InitOne ==
    InitWith({Config(k, p, t, f) : k \in Keys, p \in BOOLEAN, t \in BOOLEAN, f \in Files})

NextOne ==
    \E r \in One :
        \/ \E t \in Tokens : normal_generate(r, t)
        \/ \E t \in Tokens : generate(r, t)
        \/ acquire(r)
        \/ \E b \in Bodies : guarded(r, b)
        \/ \E res \in Results : create_returns(r, res)
        \/ \E f \in Failures : create_raises(r, f)
        \/ gen_start(r)
        \/ stream_opens(r)
        \/ \E f \in Failures : stream_raises(r, f)
        \/ \E c \in Chunks : Len(chunks[r]) < MaxChunks /\ chunk_arrives(r, c)
        \/ resume_data(r)
        \/ stream_ends(r)
        \/ resume_end(r)
        \/ client_disconnects(r)

SpecOne == InitOne /\ [][NextOne]_vars

\* SpecGate: NumReqs requests reach POST /chat/completions (or POST /) while
\* the allow-list file is edited between them.
InitGate ==
    InitWith({Config(Some("sk"), FALSE, TRUE, f) : f \in Files})

NextGate ==
    \/ \E r \in Reqs, t \in Tokens : generate(r, t)
    \/ \E r \in Reqs : normal_generate(r, None)
    \/ \E f \in Files : edit_whitelist(f)

SpecGate == InitGate /\ [][NextGate]_vars

\* SpecTrim: trim_to_end_sentence on every text of at most MaxLen characters.
Alphabet == {".", "FW?", "\n", " ", "a"}

RECURSIVE Texts(_)
Texts(n) ==
    IF n = 0 THEN {<<>>}
    ELSE Texts(n - 1) \cup {Append(t, c) : t \in {u \in Texts(n - 1) : Len(u) = n - 1},
                                          c \in Alphabet}

InitTrim ==
    /\ InitProcess({Config(Some("sk"), FALSE, TRUE, None)})
    /\ trim_ret = <<>>
    /\ trim_arg \in {TrimArg(t, nl) : t \in Texts(MaxLen), nl \in BOOLEAN}

NextTrim == call_trim

SpecTrim == InitTrim /\ [][NextTrim]_vars

\* ================================================================ claims
\* Vocabulary of the claims.
InSection(r) == pc[r] \in {"locked", "calling"}
Streaming(r) == params[r] # None /\ params[r][1].stream
\* The generator of r has started and has not returned.
GeneratorRunning(r) ==
    pc[r] \in {"create_wait", "chunk_wait", "yield_data", "yield_done", "yield_err"}
\* An upstream call of r is in flight: issued, and its answer (for a stream:
\* its chunk sequence) not yet fully taken or given up.
UpstreamInFlight(r) == pc[r] \in {"calling", "create_wait", "chunk_wait", "yield_data"}
\* The streamed response of r was written to its end (the client stayed).
StreamOver(r) == Streaming(r) /\ pc[r] = "done" /\ cur[r] = None
Last(s) == s[Len(s)]
Count(s, e) == Cardinality({i \in 1..Len(s) : s[i] = e})
\* The body of r was read, and it is a JSON object with a `messages` list.
HasMessages(r) ==
    req[r].body # None /\ req[r].body[1].json /\ req[r].body[1].messages # None
MessagesOf(r) == req[r].body[1].messages[1]

\* C1: at every instant at most one upstream chat-completion invocation is in
\* flight, over all requests (streaming or not, through either entry point).
C1_AtMostOneUpstreamInFlight ==
    Cardinality({r \in Reqs : UpstreamInFlight(r)}) <= 1

\* C2: a streaming request holds the completion lock from before its
\* upstream call is issued until its last wire event has been produced.
C2_LockHeldDuringStream ==
    \A r \in Reqs : GeneratorRunning(r) => completion_lock = r

\* C3 (as claimed): every streamed response that ends by an upstream finish
\* signal or by an in-band error has the sentinel as its last event.
C3_SentinelAlwaysLast ==
    \A r \in Reqs :
        (/\ StreamOver(r)
         /\ \/ raised[r] # None
            \/ chunks[r] # <<>> /\ Last(chunks[r]).finish_reason # None)
        => events[r] # <<>> /\ Last(events[r]) = DONE

\* C3 (amended): a streamed response that ends by an upstream finish signal
\* has exactly one sentinel, as its last event; one that ends by an upstream
\* failure has the error event as its last event and no sentinel.
C3_SentinelOnFinishOnly ==
    \A r \in Reqs :
        StreamOver(r) =>
            /\ (raised[r] = None /\ chunks[r] # <<>>
                    /\ Last(chunks[r]).finish_reason # None)
               => /\ events[r] # <<>>
                  /\ Last(events[r]) = DONE
                  /\ Count(events[r], DONE) = 1
            /\ raised[r] # None
               => /\ events[r] # <<>>
                  /\ Last(events[r]).type = "error"
                  /\ Count(events[r], DONE) = 0

C3_Witness ==
    \E r \in Reqs :
        /\ StreamOver(r) /\ raised[r] = None
        /\ Len(chunks[r]) = 2
        /\ Last(chunks[r]) = Chunk(None, Some("stop"))
        /\ Last(events[r]) = DONE

\* C4: the lock is held by a request exactly while that request is inside
\* the guarded section; after every exit (result, error response, early
\* return, exception, stream handed over or abandoned) it is not held by it.
C4_LockReleasedOnEveryExit ==
    /\ \A r \in Reqs : completion_lock = r <=> InSection(r)
    /\ (\A r \in Reqs : ~InSection(r)) => completion_lock = NoReq

C4_Witness ==
    \E r, q \in Reqs :
        /\ pc[r] = "done" /\ resp[r].kind = "unhandled"
        /\ pc[q] = "done" /\ Streaming(q) /\ cur[q] # None
        /\ completion_lock = NoReq

\* C5: POST /chat/completions answers in this order: no header value ->
\* 401 "missing", the allow-list not opened; else no allow-list file -> 500;
\* else a token outside the loaded set -> 401 "invalid"; else the request
\* goes on to normal_operation.
C5_AuthGateOutcomes ==
    \A r \in Reqs :
        req[r].entry = "/chat/completions" =>
            LET t == req[r].token
                denied(status, msg) ==
                    pc[r] = "done" /\ resp[r] = JsonError(status, <<msg>>)
                                   /\ req[r].body = None
            IN  IF t = None \/ t[1] = <<>>
                THEN denied(401, "No API key provided") /\ ~opened[r]
                ELSE IF whitelist_file = None
                THEN denied(500, "Server misconfiguration: whitelist file missing")
                ELSE IF t[1] \notin allowed_tokens(whitelist_file[1])
                THEN denied(401, "Unauthorized - invalid API key")
                ELSE /\ opened[r]
                     /\ pc[r] = "waiting" \/ req[r].body # None \/ InSection(r)

C5_Witness ==
    \E r \in Reqs :
        /\ req[r].entry = "/chat/completions"
        /\ req[r].token = Some(<<" ", "a">>)
        /\ whitelist_file # None /\ <<"a">> \in allowed_tokens(whitelist_file[1])
        /\ resp[r].status = 401

\* C6: a request that the Auth Gate denies, or that is served without an
\* upstream key, never causes an upstream call.
C6_DeniedNeverCallsUpstream ==
    \A r \in Reqs :
        LET t == req[r].token
            denied == /\ req[r].entry = "/chat/completions"
                      /\ \/ t = None \/ t[1] = <<>>
                         \/ whitelist_file = None
                         \/ t[1] \notin allowed_tokens(whitelist_file[1])
            no_key == API_KEY = None \/ API_KEY[1] = ""
        IN  (denied \/ no_key) => calls[r] = 0 /\ params[r] = None /\ ~UpstreamInFlight(r)

C6_Witness ==
    \E r, q \in Reqs :
        /\ resp[r] = JsonError(401, <<"Unauthorized - invalid API key">>)
        /\ calls[r] = 0
        /\ UpstreamInFlight(q)

\* C7: when the first message's content is exactly "Just say TEST" the
\* request returns the canned result, calls no upstream and shapes no
\* messages, whatever the stream flag, the prefill setting, the other
\* messages and the upstream key.
C7_ProbeShortCircuits ==
    \A r \in Reqs :
        (HasMessages(r) /\ MessagesOf(r) # <<>> /\ MessagesOf(r)[1].content = TEST_PROBE)
        => /\ pc[r] = "done"
           /\ resp[r] = Response(200, "result", <<>>, Some(CannedResult))
           /\ resp[r].result[1].content = Some(<<"T", "E", "S", "T">>)
           /\ resp[r].result[1].usage = <<10, 1, 11>>
           /\ calls[r] = 0
           /\ params[r] = None

C7_Witness ==
    \E r \in Reqs :
        /\ HasMessages(r) /\ Len(MessagesOf(r)) = 2
        /\ MessagesOf(r)[1].content = TEST_PROBE
        /\ req[r].body[1].stream /\ PREFILL_ENABLED /\ API_KEY = None
        /\ resp[r].status = 200

\* C8: every request that passes the auth gate, the short-circuit check and
\* the key-presence check causes exactly one upstream call.
C8_ExactlyOneUpstreamCall ==
    \A r \in Reqs :
        (/\ pc[r] = "done"
         /\ HasMessages(r)
         /\ ~(MessagesOf(r) # <<>> /\ MessagesOf(r)[1].content = TEST_PROBE)
         /\ API_KEY # None /\ API_KEY[1] # "")
        => calls[r] = 1

\* C9: for a chunk sequence in which every chunk carries content and the
\* first finish_reason is on chunk k, the events are the k content events in
\* upstream order and then one sentinel; nothing is taken after chunk k.
C9_ReframingKeepsOrderAndStops ==
    \A r \in Reqs :
        /\ \A i \in 1..(Len(chunks[r]) - 1) : chunks[r][i].finish_reason = None
        /\ (/\ StreamOver(r) /\ raised[r] = None
            /\ \A i \in 1..Len(chunks[r]) : chunks[r][i].content # None
            /\ \E i \in 1..Len(chunks[r]) : chunks[r][i].finish_reason # None)
           => events[r] =
                  [i \in 1..Len(chunks[r]) |->
                       Event("data", chunks[r][i].content,
                             chunks[r][i].finish_reason, <<>>)]
                  \o <<DONE>>

C9_Witness ==
    \E r \in Reqs :
        /\ StreamOver(r) /\ raised[r] = None
        /\ chunks[r] = <<Chunk(Some("a"), None), Chunk(Some(""), Some("stop"))>>
        /\ Len(events[r]) = 3

\* The content events of the chunks taken so far, in order.
RECURSIVE ContentEvents(_)
ContentEvents(cs) ==
    IF cs = <<>> THEN <<>>
    ELSE (IF Head(cs).content # None
          THEN <<Event("data", Head(cs).content, Head(cs).finish_reason, <<>>)>>
          ELSE <<>>) \o ContentEvents(Tail(cs))

\* C10 (as claimed): a failed stream ends with one error event whose message
\* is "out of quota" for a quota failure and the failure's message otherwise.
C10_ErrorEventIsFailureMessage ==
    \A r \in Reqs :
        (Streaming(r) /\ raised[r] # None)
        => Last(events[r]).message =
               IF raised[r][1].kind = "quota" THEN <<"out of quota">>
               ELSE raised[r][1].msg

\* C10 (amended): a failure of the call or of a chunk fetch gives exactly one
\* error event after the content events already emitted, no further chunk, and
\* no exception; its message is "out of quota" when the failure's text holds
\* "429" or (in any case) "quota", else "request failed: " and the text.
C10_OneInBandErrorEvent ==
    \A r \in Reqs :
        (Streaming(r) /\ raised[r] # None)
        => LET msg == raised[r][1].msg
               quota == \E i \in 1..Len(msg) : msg[i] \in {"429", "quota", "Quota", "QUOTA"}
           IN  /\ events[r] = ContentEvents(chunks[r]) \o
                      <<Event("error", None, None,
                              IF quota THEN <<"out of quota">>
                              ELSE <<"request failed: ">> \o msg)>>
               /\ pc[r] \in {"yield_err", "done"}
               /\ resp[r] = Response(200, "event-stream", <<>>, None)

C10_Witness ==
    \E r \in Reqs :
        /\ Streaming(r) /\ raised[r] = Some(Failure("quota", <<"Quota", "exceeded">>))
        /\ Len(chunks[r]) = 2 /\ Len(events[r]) = 2
        /\ pc[r] = "done"

\* C11: the outcome of each request on POST /chat/completions is decided by
\* the allow-list file as it is when the request is handled: whatever was
\* loaded for earlier requests, a token the file no longer lists is denied
\* as invalid and a token the file now lists is admitted.
C11_NoAllowListCaching ==
    [][\A r \in Reqs :
          (pc[r] = "idle" /\ pc'[r] # "idle" /\ req'[r].entry = "/chat/completions"
              /\ TruthyText(req'[r].token))
          => IF whitelist_file = None
             THEN resp'[r] =
                      JsonError(500, <<"Server misconfiguration: whitelist file missing">>)
             ELSE IF req'[r].token[1] \in allowed_tokens(whitelist_file[1])
             THEN pc'[r] = "waiting" /\ resp'[r] = NoResponse
             ELSE pc'[r] = "done"
                  /\ resp'[r] = JsonError(401, <<"Unauthorized - invalid API key">>)]_vars

\* A token admitted for one request and, the file edited, denied for another.
C11_Witness ==
    \E r, q \in Reqs :
        /\ req[r].entry = "/chat/completions" /\ req[q].entry = "/chat/completions"
        /\ req[r].token = Some(<<"b">>) /\ req[q].token = Some(<<"b">>)
        /\ pc[r] = "waiting"
        /\ resp[q] = JsonError(401, <<"Unauthorized - invalid API key">>)
        /\ whitelist_file # whitelist_boot

\* C12 (as claimed): trimming the trimmed text changes nothing, for
\* include_newline false and true.
C12_TrimIdempotent ==
    Len(trim_ret) = 2 => trim_ret[2] = trim_ret[1]

\* C12 (amended): trimming the trimmed text changes nothing when
\* include_newline is false, and when it is true and the last terminator of
\* the text (newline counted) is not a newline.
C12_TrimIdempotentWithoutNewlineCut ==
    LET s == trim_arg.input_str
        at == {i \in 1..Len(s) : s[i] \in punctuation \cup {"\n"}}
    IN  (/\ Len(trim_ret) = 2
         /\ \/ ~trim_arg.include_newline
            \/ at = {}
            \/ s[Max(at)] # "\n")
        => trim_ret[2] = trim_ret[1]

C12_Witness ==
    /\ Len(trim_ret) = 2
    /\ trim_arg = TrimArg(<<"a", ".", "\n", "a">>, FALSE)
    /\ trim_ret[2] = <<"a", ".">>

\* C13 (as claimed): a failure of the non-streaming upstream call becomes a
\* JSON error with status 429 for a quota failure, 401 for an unauthorized
\* failure and 500 for any other failure.
C13_StatusByFailureKind ==
    \A r \in Reqs :
        (~Streaming(r) /\ raised[r] # None)
        => /\ resp[r].kind = "json_error"
           /\ resp[r].status =
                  CASE raised[r][1].kind = "quota" -> 429
                    [] raised[r][1].kind = "unauthorized" -> 401
                    [] OTHER -> 500

\* C13 (amended): a failure of the non-streaming upstream call becomes a JSON
\* error, never an exception: 429 when the failure's text holds "429" or (in
\* any case) "quota", else 401 when it holds "401" or (in any case)
\* "unauthorized", else 500 with the text; the lock is released and the
\* request has made one upstream call.
C13_StatusByFailureText ==
    \A r \in Reqs :
        (~Streaming(r) /\ raised[r] # None)
        => LET msg == raised[r][1].msg
               quota == \E i \in 1..Len(msg) : msg[i] \in {"429", "quota", "Quota", "QUOTA"}
               unauthorized ==
                   \E i \in 1..Len(msg) : msg[i] \in {"401", "unauthorized", "Unauthorized"}
           IN  /\ resp[r] =
                      IF quota THEN JsonError(429, <<"out of quota">>)
                      ELSE IF unauthorized
                      THEN JsonError(401, <<"Unauthorized - check your API key">>)
                      ELSE JsonError(500, msg)
               /\ pc[r] = "done"
               /\ completion_lock # r
               /\ calls[r] = 1

C13_Witness ==
    \E r \in Reqs :
        /\ ~Streaming(r)
        /\ raised[r] = Some(Failure("quota", <<"Quota", "exceeded">>))
        /\ resp[r].status = 429
        /\ completion_lock = NoReq

\* C14: when the upstream returns a result whose primary choice has a text
\* content and AUTO_TRIM is on, the returned result is the upstream result
\* with that content cut after its last sentence terminator and its trailing
\* whitespace removed (only the whitespace when it has no terminator); with
\* AUTO_TRIM off, or without choices, the returned result is the upstream
\* result; no other field differs.
C14_NonStreamingAutoTrim ==
    \A r \in Reqs :
        (/\ response[r] # None
         /\ ~(AUTO_TRIM /\ response[r][1].has_choices /\ response[r][1].content = None))
        => LET upstream == response[r][1]
               s == upstream.content[1]
               at == {i \in 1..Len(s) : s[i] \in {".", "!", "?", "FW.", "FW!", "FW?"}}
               cut == IF at = {} THEN s ELSE SubSeq(s, 1, Max(at))
               kept == {n \in 0..Len(cut) :
                            \A i \in (n + 1)..Len(cut) : cut[i] \in {" ", "\n", "\t"}}
               n == CHOOSE n \in kept : \A m \in kept : n <= m
           IN  /\ resp[r].kind = "result"
               /\ resp[r].status = 200
               /\ resp[r].result =
                      IF AUTO_TRIM /\ upstream.has_choices
                      THEN Some([upstream EXCEPT !.content = Some(SubSeq(cut, 1, n))])
                      ELSE Some(upstream)

C14_Witness ==
    \E r \in Reqs :
        /\ AUTO_TRIM
        /\ response[r] = Some(Result(TRUE, Some(<<"O", "k", ".", " ", "c", "u", "t">>), <<3, 2, 5>>))
        /\ resp[r].result = Some(Result(TRUE, Some(<<"O", "k", ".">>), <<3, 2, 5>>))

\* C15: the messages handed to the upstream are, with PREFILL_ENABLED, the
\* inbound messages plus one assistant message holding the prefill text when
\* the last role is user, and otherwise the inbound messages with the last
\* content extended by "\n" and the prefill text, role and earlier messages
\* unchanged; without PREFILL_ENABLED they are the inbound messages.
C15_PrefillInjection ==
    \A r \in Reqs :
        params[r] # None
        => LET inbound == MessagesOf(r)
               out == params[r][1].messages
               n == Len(inbound)
           IN  IF ~PREFILL_ENABLED
               THEN out = inbound
               ELSE /\ n > 0
                    /\ IF inbound[n].role = "user"
                       THEN /\ Len(out) = n + 1
                            /\ out[n + 1].role = "assistant"
                            /\ out[n + 1].content = <<ASSISTANT_PREFILL>>
                            /\ \A i \in 1..n : out[i] = inbound[i]
                       ELSE /\ Len(out) = n
                            /\ out[n].role = inbound[n].role
                            /\ out[n].content = inbound[n].content \o <<"\n", ASSISTANT_PREFILL>>
                            /\ \A i \in 1..(n - 1) : out[i] = inbound[i]

C15_Witness ==
    \E r \in Reqs :
        /\ PREFILL_ENABLED
        /\ calls[r] = 1
        /\ params[r] # None
        /\ Len(params[r][1].messages) = 2
        /\ params[r][1].messages[2] = Message("assistant", <<"x", "\n", ASSISTANT_PREFILL>>)

\* C16: a request whose JSON body has no `messages` field, or whose messages
\* are empty while PREFILL_ENABLED, ends with an error response that the
\* handler itself reports (not an exception that leaves it), without an
\* upstream call and with the lock released.
C16_ValidationFailureReported ==
    \A r \in Reqs :
        (/\ pc[r] = "done"
         /\ req[r].body # None
         /\ req[r].body[1].json
         /\ \/ req[r].body[1].messages = None
            \/ PREFILL_ENABLED /\ req[r].body[1].messages = Some(<<>>))
        => /\ resp[r].kind = "json_error"
           /\ calls[r] = 0
           /\ completion_lock # r

\* The steps of C17 that do not depend on where the key check stands: the
\* gate before the lock, the lock before the body is looked at, the
\* short-circuit before shaping and before the key check, the key check and
\* shaping before the upstream call.
NoKey == API_KEY = None \/ API_KEY[1] = ""
KeyError401 == JsonError(401, <<"No API key found in environment variables">>)
EmptyWithPrefill(r) == HasMessages(r) /\ MessagesOf(r) = <<>> /\ PREFILL_ENABLED

OrderedSteps(r) ==
    LET t == req[r].token
        passes == /\ t # None /\ t[1] # <<>>
                  /\ whitelist_file # None
                  /\ t[1] \in allowed_tokens(whitelist_file[1])
    IN  /\ (req[r].entry = "/chat/completions" /\ ~passes)
           => pc[r] \in {"idle", "done"} /\ completion_lock # r /\ req[r].body = None
        /\ pc[r] \in {"idle", "waiting", "locked"}
           => req[r].body = None /\ params[r] = None /\ calls[r] = 0
        /\ (HasMessages(r) /\ MessagesOf(r) # <<>> /\ MessagesOf(r)[1].content = TEST_PROBE)
           => resp[r].kind = "result" /\ params[r] = None
        /\ NoKey => params[r] = None /\ calls[r] = 0 /\ ~UpstreamInFlight(r)
        /\ (calls[r] > 0 \/ UpstreamInFlight(r))
           => /\ params[r] # None
              /\ PREFILL_ENABLED => Len(params[r][1].messages) > 0
              /\ PREFILL_ENABLED => Last(params[r][1].messages).role # "user"

\* C17 (as claimed): the steps run in the order gate, lock, short-circuit,
\* shaping, key check, upstream call; a request for which both shaping fails
\* (empty messages with PREFILL_ENABLED) and the key is missing is answered
\* with the shaping failure, not with the missing-key error.
C17_ShapingBeforeKeyCheck ==
    \A r \in Reqs :
        /\ OrderedSteps(r)
        /\ (pc[r] = "done" /\ EmptyWithPrefill(r) /\ NoKey) => resp[r] # KeyError401

\* C17 (amended): the steps run in the order gate, lock, `messages` lookup,
\* short-circuit, key check, shaping, upstream call; a request without a key
\* whose messages are there and do not short-circuit is answered with the
\* missing-key error, also when shaping would fail; shaping fails (status
\* 500, no upstream call) only when the key is there, and a missing
\* `messages` field fails (status 500) whether or not the key is there.
C17_KeyCheckBeforeShaping ==
    \A r \in Reqs :
        /\ OrderedSteps(r)
        /\ (/\ pc[r] = "done" /\ HasMessages(r) /\ NoKey
            /\ ~(MessagesOf(r) # <<>> /\ MessagesOf(r)[1].content = TEST_PROBE))
           => resp[r] = KeyError401
        /\ (pc[r] = "done" /\ EmptyWithPrefill(r) /\ ~NoKey)
           => resp[r].status = 500 /\ calls[r] = 0
        /\ (pc[r] = "done" /\ req[r].body # None /\ req[r].body[1].json /\ ~HasMessages(r))
           => resp[r].status = 500 /\ resp[r] # KeyError401

C17_Witness ==
    \E r \in Reqs :
        /\ pc[r] = "done" /\ EmptyWithPrefill(r) /\ NoKey
        /\ req[r].entry = "/chat/completions"
        /\ resp[r] = KeyError401

\* C18: once the generator has handled a chunk that carries a finish_reason,
\* its last two events are the data event of that chunk, carrying the
\* finish_reason, and then the sentinel, also when the chunk's content is
\* null; that chunk is the last one taken.
C18_FinishChunkEventThenSentinel ==
    \A r \in Reqs :
        \A k \in 1..Len(chunks[r]) :
            (/\ chunks[r][k].finish_reason # None
             /\ pc[r] \in {"yield_done", "done"}
             /\ cur[r] = None)
            => /\ k = Len(chunks[r])
               /\ Len(events[r]) >= 2
               /\ Last(events[r]) = DONE
               /\ events[r][Len(events[r]) - 1].type = "data"
               /\ events[r][Len(events[r]) - 1].finish_reason = chunks[r][k].finish_reason

\* C19: a non-streaming upstream call is in flight only while its request
\* holds the lock, so at most one non-streaming call is in flight at a time.
C19_NonStreamingCallsExclusive ==
    /\ \A r \in Reqs : pc[r] = "calling" => completion_lock = r /\ ~Streaming(r)
    /\ Cardinality({r \in Reqs : pc[r] = "calling"}) <= 1

C19_Witness ==
    \E r, q \in Reqs :
        /\ pc[r] = "calling" /\ calls[r] = 1
        /\ pc[q] = "waiting"
        /\ completion_lock = r

\* Under SpecFair every request that waits for the lock gets it and every
\* request ends.
EveryRequestEnds ==
    \A r \in Reqs :
        /\ pc[r] = "waiting" ~> completion_lock = r
        /\ pc[r] # "idle" ~> pc[r] = "done"

\* C20: under fair scheduling, with an upstream that answers every call and
\* ends every stream, every request that waits for the lock gets it, and
\* every inbound request ends with a final response that is a JSON result, a
\* JSON error or an event stream.
C20_EveryRequestAnswered ==
    \A r \in Reqs :
        /\ pc[r] = "waiting" ~> completion_lock = r
        /\ pc[r] # "idle"
           ~> (pc[r] = "done" /\ resp[r].kind \in {"result", "json_error", "event-stream"})

====
